---- MODULE Spec2Model ----
(***************************************************************************)
(* Model of the two Zed extension entry points of zed-extension/src:       *)
(*   lib.rs         the extension without a sidecar (stateless hook)       *)
(*   lib-simple.rs  the extension holding Arc<Mutex<Option<Child>>>, with  *)
(*                  ensure_sidecar_running, language_server_command, Drop  *)
(* ensure_sidecar_running and drop are modelled statement by statement so  *)
(* that the extent of the mutex guard is visible.  Each eprintln! either   *)
(* prints or, when stderr rejects the write, panics; a panic under the     *)
(* guard poisons the mutex.  Spec is the program as Rust's `&mut self`     *)
(* permits it (one hook invocation at a time); SpecConc lets several       *)
(* callers run ensure_sidecar_running on the shared handle.                *)
(***************************************************************************)
EXTENDS Integers, Sequences, FiniteSets, TLC

\* ---- bounds ----
MaxHooks == 3
NumThreads == 2
MaxLibCalls == 2

Threads == 1..NumThreads
Pids == 1..MaxHooks
LanguageServerIds == {"kilocode", "other"}
Worktrees == {"w1", "w2"}
SpawnErrors == {"NotFound", "PermissionDenied"}

\* Option::None for a pid, the unlocked mutex, and drop as lock holder
None == 0
Free == 0
DropOwner == NumThreads + 1

\* ---- program constants ----
service_port == 3001

VARIABLES
  sidecar_process,  \* contents of the Mutex: None or the Child (its pid)
  lock_owner,       \* Free, a thread holding process_guard, or DropOwner
  pc,               \* per caller: position inside language_server_command
  arg,              \* per caller: <<language_server_id, worktree>> of the call
  child,            \* per caller: local `child` of ensure_sidecar_running
  ensure_result,    \* per caller: value returned by ensure_sidecar_running
  hook_result,      \* per caller: value returned by language_server_command
  proc,             \* per pid: OS state of the process
  kills,            \* per pid: number of kill() calls made on it
  spawn_attempts,   \* number of Command::spawn calls
  spawn_ok,         \* number of Command::spawn calls that succeeded
  hooks_started,    \* number of language_server_command invocations
  ensure_log,       \* completed ensure_sidecar_running calls, in order
  dpc,              \* position inside Drop::drop
  process,          \* local `process` of drop (what guard.take() returned)
  kill_result,      \* value of process.kill() discarded by drop
  poisoned,         \* the Mutex is poisoned: a holder of the guard panicked
  lib_result,       \* lib.rs: value returned by the last hook invocation
  lib_calls         \* lib.rs: number of hook invocations

vars == <<sidecar_process, lock_owner, pc, arg, child, ensure_result,
          hook_result, proc, kills, spawn_attempts, spawn_ok, hooks_started,
          ensure_log, dpc, process, kill_result, poisoned, lib_result,
          lib_calls>>

\* ---- values ----
\* Result values; NoResult stands for "the call has not returned"
Ok(v) == [tag |-> "Ok", val |-> v]
Err(e) == [tag |-> "Err", val |-> e]
Unit == <<>>
NoResult == [tag |-> "NoResult", val |-> <<>>]
\* The call unwound with a panic instead of returning a value
Panicked == [tag |-> "Panic", val |-> <<>>]

ZedCommand(command, args, env) == [command |-> command, args |-> args, env |-> env]

\* map_err(|e| format!("Failed to start sidecar: {}", e))
SpawnErrorMessage(e) == <<"Failed to start sidecar: ", e>>

\* Option::is_some
is_some(h) == h /= None

\* ---- lib.rs ----
\* language_server_command of lib.rs: both parameters are unused.
lib_language_server_command(language_server_id, worktree) ==
  Ok(ZedCommand("echo",
                <<"Kilocode AI Extension Loaded - Sidecar at http://localhost:3001">>,
                {}))

LibHook(id, wt) ==
  /\ lib_calls < MaxLibCalls
  /\ lib_result' = lib_language_server_command(id, wt)
  /\ lib_calls' = lib_calls + 1
  /\ UNCHANGED <<sidecar_process, lock_owner, pc, arg, child, ensure_result,
                 hook_result, proc, kills, spawn_attempts, spawn_ok,
                 hooks_started, ensure_log, dpc, process, kill_result,
                 poisoned>>

\* ---- lib-simple.rs ----
\* KilocodeExtension::new and the state before any call
Init ==
  /\ sidecar_process = None
  /\ lock_owner = Free
  /\ pc = [t \in Threads |-> "idle"]
  /\ arg = [t \in Threads |-> <<"", "">>]
  /\ child = [t \in Threads |-> None]
  /\ ensure_result = [t \in Threads |-> NoResult]
  /\ hook_result = [t \in Threads |-> NoResult]
  /\ proc = [p \in Pids |-> "unspawned"]
  /\ kills = [p \in Pids |-> 0]
  /\ spawn_attempts = 0
  /\ spawn_ok = 0
  /\ hooks_started = 0
  /\ ensure_log = <<>>
  /\ dpc = "live"
  /\ process = None
  /\ kill_result = NoResult
  /\ poisoned = FALSE
  /\ lib_result = NoResult
  /\ lib_calls = 0

\* Variant of language_server_command that applies `?` to the result of
\* ensure_sidecar_running.
language_server_command_propagates(language_server_id, worktree, r) ==
  IF r.tag = "Err" THEN r
  ELSE Ok(ZedCommand("echo", <<"Kilocode AI Assistant Ready">>, {}))

\* The value language_server_command returns; r is the result of
\* ensure_sidecar_running, which `let _ =` discards.
language_server_command(language_server_id, worktree, r) ==
  Ok(ZedCommand("echo", <<"Kilocode AI Assistant Ready">>, {}))

\* What one ended ensure_sidecar_running call did: its result ("Ok", "Err"
\* or "Panic"), whether it called spawn, the handle held and the number of
\* processes spawned so far when it ended.
LogEntry(res, attempted, handle, spawned) ==
  [res |-> res, attempted |-> attempted, handle |-> handle, spawned |-> spawned]

\* Entry into language_server_command (the body of HookBegin and
\* HookBeginConc): the call of ensure_sidecar_running is next.
EnterHook(t, id, wt) ==
  /\ dpc = "live"
  /\ pc[t] = "idle"
  /\ hooks_started < MaxHooks
  /\ hooks_started' = hooks_started + 1
  /\ pc' = [pc EXCEPT ![t] = "lock"]
  /\ arg' = [arg EXCEPT ![t] = <<id, wt>>]
  /\ ensure_result' = [ensure_result EXCEPT ![t] = NoResult]
  /\ hook_result' = [hook_result EXCEPT ![t] = NoResult]
  /\ UNCHANGED <<sidecar_process, lock_owner, child, proc, kills,
                 spawn_attempts, spawn_ok, ensure_log, dpc, process,
                 kill_result, poisoned, lib_result, lib_calls>>

\* The host invokes the hook through `&mut self`: no other invocation on
\* this instance is in progress.
HookBegin(t, id, wt) ==
  /\ \A u \in Threads : pc[u] = "idle"
  /\ EnterHook(t, id, wt)

\* Concurrent callers of the check-then-spawn on the shared handle.
HookBeginConc(t, id, wt) ==
  EnterHook(t, id, wt)

\* let mut process_guard = self.sidecar_process.lock().unwrap();
\* On a poisoned mutex lock() is Err(PoisonError) and unwrap() panics: the
\* panic unwinds through language_server_command, which returns nothing.
Lock(t) ==
  /\ pc[t] = "lock"
  /\ lock_owner = Free
  /\ IF poisoned
       THEN /\ pc' = [pc EXCEPT ![t] = "idle"]
            /\ hook_result' = [hook_result EXCEPT ![t] = Panicked]
            /\ ensure_log' = Append(ensure_log,
                                    LogEntry("Panic", FALSE, sidecar_process, spawn_ok))
            /\ UNCHANGED lock_owner
       ELSE /\ lock_owner' = t
            /\ pc' = [pc EXCEPT ![t] = "check"]
            /\ UNCHANGED <<hook_result, ensure_log>>
  /\ UNCHANGED <<sidecar_process, arg, child, ensure_result, proc, kills,
                 spawn_attempts, spawn_ok, hooks_started, dpc, process,
                 kill_result, poisoned, lib_result, lib_calls>>

\* The `if <running> { return Ok(()); }` statement: on the early return the
\* guard is dropped; otherwise execution continues at line 26, holding the
\* guard exactly when keep_guard.
CheckStep(t, running, keep_guard) ==
  /\ pc[t] = "check"
  /\ IF running
       THEN /\ ensure_result' = [ensure_result EXCEPT ![t] = Ok(Unit)]
            /\ ensure_log' = Append(ensure_log,
                                    LogEntry("Ok", FALSE, sidecar_process, spawn_ok))
            /\ lock_owner' = Free
            /\ pc' = [pc EXCEPT ![t] = "ret"]
       ELSE /\ pc' = [pc EXCEPT ![t] = "spawn"]
            /\ lock_owner' = IF keep_guard THEN lock_owner ELSE Free
            /\ UNCHANGED <<ensure_result, ensure_log>>
  /\ UNCHANGED <<sidecar_process, arg, child, hook_result, proc, kills,
                 spawn_attempts, spawn_ok, hooks_started, dpc, process,
                 kill_result, poisoned, lib_result, lib_calls>>

\* Variant of Check whose guard covers only the check.
CheckReleasesGuard(t) ==
  CheckStep(t, is_some(sidecar_process), FALSE)

\* Variant of Check that spawns again when the held process has exited.
CheckRestartsExited(t) ==
  CheckStep(t, is_some(sidecar_process) /\ proc[sidecar_process] /= "exited", TRUE)

\* if process_guard.is_some() { return Ok(()); }
Check(t) ==
  CheckStep(t, is_some(sidecar_process), TRUE)

\* eprintln!("Starting Kilocode sidecar on port {}...") fails to write to
\* stderr and panics: no spawn is made, the guard is dropped by the
\* unwinding and the mutex is poisoned.
StartMessagePanics(t) ==
  /\ pc[t] = "spawn"
  /\ poisoned' = TRUE
  /\ lock_owner' = Free
  /\ pc' = [pc EXCEPT ![t] = "idle"]
  /\ hook_result' = [hook_result EXCEPT ![t] = Panicked]
  /\ ensure_log' = Append(ensure_log,
                          LogEntry("Panic", FALSE, sidecar_process, spawn_ok))
  /\ UNCHANGED <<sidecar_process, arg, child, ensure_result, proc, kills,
                 spawn_attempts, spawn_ok, hooks_started, dpc, process,
                 kill_result, lib_result, lib_calls>>

\* The message of line 26 is printed and Command::new("echo").arg(..).spawn()
\* succeeds: a new process runs and the local `child` holds it.
SpawnOk(t) ==
  /\ pc[t] = "spawn"
  /\ spawn_attempts' = spawn_attempts + 1
  /\ spawn_ok' = spawn_ok + 1
  /\ proc' = [proc EXCEPT ![spawn_ok + 1] = "running"]
  /\ child' = [child EXCEPT ![t] = spawn_ok + 1]
  /\ pc' = [pc EXCEPT ![t] = "store"]
  /\ UNCHANGED <<sidecar_process, lock_owner, arg, ensure_result, hook_result,
                 kills, hooks_started, ensure_log, dpc, process, kill_result,
                 poisoned, lib_result, lib_calls>>

\* Variant of SpawnFail that returns the error while still holding the guard.
SpawnFailKeepsGuard(t, e) ==
  /\ pc[t] = "spawn"
  /\ spawn_attempts' = spawn_attempts + 1
  /\ ensure_result' = [ensure_result EXCEPT ![t] = Err(SpawnErrorMessage(e))]
  /\ ensure_log' = Append(ensure_log,
                          LogEntry("Err", TRUE, sidecar_process, spawn_ok))
  /\ pc' = [pc EXCEPT ![t] = "ret"]
  /\ UNCHANGED <<sidecar_process, lock_owner, arg, child, hook_result, proc,
                 kills, spawn_ok, hooks_started, dpc, process, kill_result,
                 poisoned, lib_result, lib_calls>>

\* The message of line 26 is printed and spawn() fails with OS error e: `?`
\* returns the mapped error and the guard is dropped.
SpawnFail(t, e) ==
  /\ pc[t] = "spawn"
  /\ spawn_attempts' = spawn_attempts + 1
  /\ ensure_result' = [ensure_result EXCEPT ![t] = Err(SpawnErrorMessage(e))]
  /\ ensure_log' = Append(ensure_log,
                          LogEntry("Err", TRUE, sidecar_process, spawn_ok))
  /\ lock_owner' = Free
  /\ pc' = [pc EXCEPT ![t] = "ret"]
  /\ UNCHANGED <<sidecar_process, arg, child, hook_result, proc, kills,
                 spawn_ok, hooks_started, dpc, process, kill_result, poisoned,
                 lib_result, lib_calls>>

\* What follows the store of line 38: when eprintln!("Kilocode sidecar
\* initialized!") prints, Ok(()) is returned and the guard dropped; when it
\* fails the call panics, the guard is dropped by the unwinding and the
\* mutex is poisoned.  stored is the content of the Option at that point.
AfterStore(t, printed, stored) ==
  /\ child' = [child EXCEPT ![t] = None]
  /\ lock_owner' = Free
  /\ IF printed
       THEN /\ ensure_result' = [ensure_result EXCEPT ![t] = Ok(Unit)]
            /\ ensure_log' = Append(ensure_log,
                                    LogEntry("Ok", TRUE, stored, spawn_ok))
            /\ pc' = [pc EXCEPT ![t] = "ret"]
            /\ UNCHANGED <<hook_result, poisoned>>
       ELSE /\ poisoned' = TRUE
            /\ hook_result' = [hook_result EXCEPT ![t] = Panicked]
            /\ ensure_log' = Append(ensure_log,
                                    LogEntry("Panic", TRUE, stored, spawn_ok))
            /\ pc' = [pc EXCEPT ![t] = "idle"]
            /\ UNCHANGED ensure_result
  /\ UNCHANGED <<arg, proc, kills, spawn_attempts, spawn_ok, hooks_started,
                 dpc, process, kill_result, lib_result, lib_calls>>

\* Variant of Store that drops the child instead of storing it.
StoreDropsChild(t, printed) ==
  /\ pc[t] = "store"
  /\ UNCHANGED sidecar_process
  /\ AfterStore(t, printed, sidecar_process)

\* *process_guard = Some(child); eprintln!(..); Ok(())
Store(t, printed) ==
  /\ pc[t] = "store"
  /\ sidecar_process' = child[t]
  /\ AfterStore(t, printed, child[t])

\* let _ = self.ensure_sidecar_running(); Ok(zed::Command { .. })
HookReturn(t) ==
  /\ pc[t] = "ret"
  /\ hook_result' = [hook_result EXCEPT ![t] =
                       language_server_command(arg[t][1], arg[t][2],
                                               ensure_result[t])]
  /\ pc' = [pc EXCEPT ![t] = "idle"]
  /\ UNCHANGED <<sidecar_process, lock_owner, arg, child, ensure_result, proc,
                 kills, spawn_attempts, spawn_ok, hooks_started, ensure_log,
                 dpc, process, kill_result, poisoned, lib_result, lib_calls>>

\* The spawned `echo` prints its argument and exits by itself.
ProcessExit(p) ==
  /\ proc[p] = "running"
  /\ proc' = [proc EXCEPT ![p] = "exited"]
  /\ UNCHANGED <<sidecar_process, lock_owner, pc, arg, child, ensure_result,
                 hook_result, kills, spawn_attempts, spawn_ok, hooks_started,
                 ensure_log, dpc, process, kill_result, poisoned, lib_result,
                 lib_calls>>

\* drop: if let Ok(mut guard) = self.sidecar_process.lock()
\* Dropping needs ownership of the instance: no hook invocation is running.
\* On a poisoned mutex lock() is Err and the whole block is skipped.
DropLock ==
  /\ dpc = "live"
  /\ \A t \in Threads : pc[t] = "idle"
  /\ lock_owner = Free
  /\ IF poisoned
       THEN /\ dpc' = "dropped"
            /\ UNCHANGED lock_owner
       ELSE /\ lock_owner' = DropOwner
            /\ dpc' = "locked"
  /\ UNCHANGED <<sidecar_process, pc, arg, child, ensure_result, hook_result,
                 proc, kills, spawn_attempts, spawn_ok, hooks_started,
                 ensure_log, process, kill_result, poisoned, lib_result,
                 lib_calls>>

\* if let Some(mut process) = guard.take() {
\*     let _ = process.kill(); eprintln!("Kilocode sidecar stopped"); }
\* killed says whether the OS delivered the signal, printed whether the
\* eprintln! wrote its message; when it did not, drop panics, the guard is
\* dropped by the unwinding and the mutex is poisoned.
DropKill(killed, printed) ==
  /\ dpc = "locked"
  /\ is_some(sidecar_process)
  /\ process' = sidecar_process
  /\ sidecar_process' = None
  /\ kills' = [kills EXCEPT ![sidecar_process] = @ + 1]
  /\ kill_result' = IF killed THEN Ok(Unit) ELSE Err(<<"kill failed">>)
  /\ proc' = IF killed /\ proc[sidecar_process] = "running"
               THEN [proc EXCEPT ![sidecar_process] = "killed"]
               ELSE proc
  /\ IF printed
       THEN /\ dpc' = "unlock"
            /\ UNCHANGED <<lock_owner, poisoned>>
       ELSE /\ dpc' = "panicked"
            /\ lock_owner' = Free
            /\ poisoned' = TRUE
  /\ UNCHANGED <<pc, arg, child, ensure_result, hook_result, spawn_attempts,
                 spawn_ok, hooks_started, ensure_log, lib_result, lib_calls>>

\* guard.take() returned None: nothing to kill.
DropNothing ==
  /\ dpc = "locked"
  /\ ~is_some(sidecar_process)
  /\ dpc' = "unlock"
  /\ UNCHANGED <<sidecar_process, lock_owner, pc, arg, child, ensure_result,
                 hook_result, proc, kills, spawn_attempts, spawn_ok,
                 hooks_started, ensure_log, process, kill_result, poisoned,
                 lib_result, lib_calls>>

\* end of the `if let Ok(..)` block: the guard is dropped
DropUnlock ==
  /\ dpc = "unlock"
  /\ lock_owner' = Free
  /\ dpc' = "dropped"
  /\ UNCHANGED <<sidecar_process, pc, arg, child, ensure_result, hook_result,
                 proc, kills, spawn_attempts, spawn_ok, hooks_started,
                 ensure_log, process, kill_result, poisoned, lib_result,
                 lib_calls>>

Common ==
  \/ \E t \in Threads : Lock(t)
  \/ \E t \in Threads : Check(t)
  \/ \E t \in Threads : StartMessagePanics(t)
  \/ \E t \in Threads : SpawnOk(t)
  \/ \E t \in Threads, e \in SpawnErrors : SpawnFail(t, e)
  \/ \E t \in Threads, printed \in BOOLEAN : Store(t, printed)
  \/ \E t \in Threads : HookReturn(t)
  \/ \E p \in Pids : ProcessExit(p)
  \/ DropLock
  \/ \E killed \in BOOLEAN, printed \in BOOLEAN : DropKill(killed, printed)
  \/ DropNothing
  \/ DropUnlock
  \/ \E id \in LanguageServerIds, wt \in Worktrees : LibHook(id, wt)

Next ==
  \/ \E t \in Threads, id \in LanguageServerIds, wt \in Worktrees : HookBegin(t, id, wt)
  \/ Common

NextConc ==
  \/ \E t \in Threads, id \in LanguageServerIds, wt \in Worktrees : HookBeginConc(t, id, wt)
  \/ Common

Spec == Init /\ [][Next]_vars

SpecConc == Init /\ [][NextConc]_vars

TypeOK ==
  /\ sidecar_process \in Pids \cup {None}
  /\ lock_owner \in Threads \cup {Free, DropOwner}
  /\ pc \in [Threads -> {"idle", "lock", "check", "spawn", "store", "ret"}]
  /\ dpc \in {"live", "locked", "unlock", "dropped", "panicked"}
  /\ poisoned \in BOOLEAN
  /\ spawn_ok <= spawn_attempts
  /\ spawn_attempts <= hooks_started

\* ---- properties ----
\* The command descriptors the two variants are specified to return.
FixedLibCommand ==
  [command |-> "echo",
   args |-> <<"Kilocode AI Extension Loaded - Sidecar at http://localhost:3001">>,
   env |-> {}]

FixedSidecarCommand ==
  [command |-> "echo", args |-> <<"Kilocode AI Assistant Ready">>, env |-> {}]

\* The statements of ensure_sidecar_running executed under process_guard
CriticalSection == {"check", "spawn", "store"}

\* The last hook invocation of caller t is over (by return or by panic).
Ended(t) == pc[t] = "idle" /\ arg[t] /= <<"", "">>

\* drop is over (by return or by panic).
TornDown == dpc \in {"dropped", "panicked"}

Unsignaled == {p \in Pids : proc[p] /= "unspawned" /\ kills[p] = 0}

ErrEntries == {i \in 1..Len(ensure_log) : ensure_log[i].res = "Err"}

\* C1: in both variants every hook invocation, for every identifier and
\* worktree and in every state of the handle, ends by returning Ok with
\* program "echo", the variant's one fixed argument and an empty
\* environment.
C1_FixedCommand ==
  /\ \A t \in Threads :
       Ended(t) => /\ hook_result[t].tag = "Ok"
                   /\ hook_result[t].val = FixedSidecarCommand
  /\ lib_calls > 0 => /\ lib_result.tag = "Ok"
                      /\ lib_result.val = FixedLibCommand

\* C2: when a call of ensure_sidecar_running whose spawn succeeded is
\* followed by another call, the second call returns Ok without calling
\* spawn, one process has been spawned in all, and the handle held is the
\* one the first call stored.
C2_EnsureIdempotent ==
  \A i \in 1..(Len(ensure_log) - 1) :
    (ensure_log[i].attempted /\ ensure_log[i].res /= "Err") =>
      /\ ensure_log[i + 1].res = "Ok"
      /\ ~ensure_log[i + 1].attempted
      /\ is_some(ensure_log[i].handle)
      /\ ensure_log[i + 1].handle = ensure_log[i].handle
      /\ ensure_log[i + 1].spawned = 1

\* C3: once drop is over no handle is held, whether kill() succeeded or
\* failed and whatever hook invocations came before.
C3_DropClearsHandle ==
  TornDown => sidecar_process = None

\* C4: every spawn call that fails makes ensure_sidecar_running return an
\* error carrying the spawn failure, and the hook invocation that made the
\* call still returns its fixed command.
C4_SpawnErrorNotPropagated ==
  /\ Cardinality(ErrEntries) = spawn_attempts - spawn_ok
  /\ \A t \in Threads :
       ensure_result[t].tag = "Err" =>
         /\ \E e \in SpawnErrors :
              ensure_result[t].val = <<"Failed to start sidecar: ", e>>
         /\ pc[t] \in {"ret", "idle"}
         /\ Ended(t) => /\ hook_result[t].tag = "Ok"
                        /\ hook_result[t].val = FixedSidecarCommand

\* a hook invocation returned its command after its spawn had failed, on an
\* instance whose earlier invocation had failed to spawn too
C4_Witness ==
  /\ \E t \in Threads :
       /\ Ended(t)
       /\ ensure_result[t].tag = "Err"
       /\ hook_result[t].tag = "Ok"
  /\ Cardinality(ErrEntries) >= 2

\* C5: at most one spawned process has not been signaled, and whenever no
\* hook invocation is in progress every such process is the one the handle
\* refers to.
C5_AtMostOneHandle ==
  /\ Cardinality(Unsignaled) <= 1
  /\ (\A t \in Threads : pc[t] = "idle") =>
       \A p \in Unsignaled : sidecar_process = p

\* a handle is held after a failed and a successful spawn
C5_Witness ==
  /\ \A t \in Threads : pc[t] = "idle"
  /\ is_some(sidecar_process)
  /\ sidecar_process \in Unsignaled
  /\ ErrEntries /= {}
  /\ hooks_started = MaxHooks

\* C6: no process is signaled more than once; before drop takes the handle
\* no kill() has been made; drop makes exactly one kill() on the process
\* whose handle is held, and none when no handle is held, which is the case
\* exactly when no spawn succeeded.
C6_KillExactlyOnce ==
  /\ \A p \in Pids : kills[p] <= 1
  /\ dpc \in {"live", "locked"} => \A p \in Pids : kills[p] = 0
  /\ (dpc = "unlock" \/ TornDown) =>
       /\ is_some(process) <=> spawn_ok > 0
       /\ \A p \in Pids : kills[p] = IF p = process THEN 1 ELSE 0

C7_Exclusion ==
  /\ \A t \in Threads : pc[t] \in CriticalSection <=> lock_owner = t
  /\ Cardinality({t \in Threads : pc[t] \in CriticalSection}) <= 1
  /\ spawn_ok <= 1

C7_NoOverwrite ==
  is_some(sidecar_process) /\ is_some(sidecar_process')
    => sidecar_process' = sidecar_process

\* C7: for every interleaving of concurrent invocations, the statements from
\* the check to the store run under one lock acquisition held by a single
\* invocation, at most one spawn succeeds, and a stored handle is never
\* replaced by another handle.
C7_CheckThenSpawnAtomic ==
  []C7_Exclusion /\ [][C7_NoOverwrite]_vars

\* one invocation waits for the lock while another is about to store
C7_Witness ==
  \E t, u \in Threads :
    /\ t /= u
    /\ pc[t] = "store"
    /\ pc[u] = "lock"

\* C8: the lock is held exactly while ensure_sidecar_running is between its
\* lock() and its end or drop is inside its `if let` block; so it is free
\* whenever neither is in progress, in particular after the early return
\* and after a failed spawn.
C8_LockReleased ==
  /\ \A t \in Threads : lock_owner = t <=> pc[t] \in CriticalSection
  /\ lock_owner = DropOwner <=> dpc \in {"locked", "unlock"}
  /\ ((\A t \in Threads : pc[t] \notin CriticalSection)
        /\ dpc \in {"live", "dropped", "panicked"}) => lock_owner = Free

\* the lock is acquired again after a spawn failure
C8_Witness ==
  /\ Len(ensure_log) >= 1
  /\ ensure_log[Len(ensure_log)].res = "Err"
  /\ \/ \E t \in Threads : pc[t] = "check" /\ lock_owner = t
     \/ dpc = "locked" /\ lock_owner = DropOwner

C9_State ==
  /\ spawn_ok <= 1
  /\ spawn_ok = 0 => sidecar_process = None

C9_Step ==
  is_some(sidecar_process) =>
    /\ spawn_attempts' = spawn_attempts
    /\ \/ sidecar_process' = sidecar_process
       \/ dpc = "locked" /\ sidecar_process' = None

\* C9: no handle is held before a spawn has succeeded, at most one spawn
\* succeeds, and once a handle is held no step calls spawn and the handle
\* stays the same until drop takes it, whatever the state of the process.
C9_NoRestart ==
  []C9_State /\ [][C9_Step]_vars

\* a later invocation returned early although the held process had exited
C9_Witness ==
  /\ is_some(sidecar_process)
  /\ proc[sidecar_process] = "exited"
  /\ Len(ensure_log) >= 2
  /\ ~ensure_log[Len(ensure_log)].attempted
  /\ \E t \in Threads : pc[t] = "ret"

\* C10: a call that failed to spawn leaves the handle absent and the call
\* after it calls spawn again; every call up to the first successful spawn
\* calls spawn; a drop after only failed spawns takes no handle and kills
\* nothing.
C10_FailureNotRemembered ==
  /\ \A i \in 1..Len(ensure_log) :
       /\ ensure_log[i].res = "Err" => ensure_log[i].handle = None
       /\ (\A j \in 1..(i - 1) : ensure_log[j].res = "Err") => ensure_log[i].attempted
  /\ (spawn_ok = 0 /\ \A t \in Threads : pc[t] \in {"idle", "ret"}) =>
       /\ sidecar_process = None
       /\ spawn_attempts = hooks_started
  /\ ((dpc = "unlock" \/ TornDown) /\ spawn_ok = 0) =>
       /\ process = None
       /\ \A p \in Pids : kills[p] = 0
====
